---- MODULE Spec2Model ----
(***************************************************************************)
(* Verification, deduplication and source-reliability pipeline of JTF News *)
(* (src/main.py): the verification queue, the reliability ledger, the      *)
(* publication ledger and the correction engine, driven by process_cycle.  *)
(*                                                                         *)
(* Texts are sequences of atoms (sentences); every atom has a word set, so *)
(* the lexical pre-filters are computed as the code computes them.  Floats *)
(* are exact rationals <<numerator, denominator>> with denominator > 0.    *)
(* Time is counted in ticks; a UTC day is TicksPerDay ticks.               *)
(***************************************************************************)
EXTENDS Integers, Sequences, FiniteSets, TLC

VARIABLES
    now,            \* wall clock, in ticks
    scraped,        \* number of headlines acquired so far
    pc,             \* "idle" (between cycles) or "loop" (inside process_cycle)
    queueFile,      \* data/queue.json
    queue,          \* process_cycle's local queue
    headlines,      \* headlines of the running cycle not yet processed
    processedCache, \* process_cycle's local processed_cache
    processed,      \* data/processed_<today>.txt
    factCache,      \* _fact_extraction_cache / data/fact_cache_<today>.json
    ratings,        \* data/learned_ratings.json
    stories,        \* data/stories.json
    shown,          \* data/shown_<today>.txt
    dailyLog,       \* data/<date>.txt, one file per date
    corrections,    \* data/corrections.json
    audit,          \* data/ratings_audit.jsonl
    faults,         \* number of storage faults so far
    alertCooldowns, \* _alert_cooldowns: alert type -> time of the last alert let through
    alertLog,       \* the calls of send_alert, with whether the alert went to Twilio
    consecutiveFailures, \* _consecutive_failures: service -> count
    killSwitch,     \* whether the file KILL_SWITCH exists
    monitor,        \* heartbeat.txt, _offline_alert_sent, _midnight_archive_done_for
    pubHeadlines,   \* history: hashes of the headline texts published from today
    probe           \* arguments and result of the last are_sources_unrelated probe

vars == <<now, scraped, pc, queueFile, queue, headlines, processedCache, processed,
          factCache, ratings, stories, shown, dailyLog, corrections, audit, faults,
          alertCooldowns, alertLog, consecutiveFailures, killSwitch, monitor, pubHeadlines, probe>>

(***************************************************************************)
(* Bounds of the model                                                     *)
(***************************************************************************)
MaxNow == 1
MaxHeadlines == 2
MaxBatch == 2
MaxObs == 6
MaxFaults == 1

(***************************************************************************)
(* Configuration (config.json, read through CONFIG)                        *)
(***************************************************************************)
TicksPerDay == 1
QueueTimeoutHours == 1
MinConfidence == 80
MaxSharedTopHolders == 2
MaturityThreshold == 5
FallbackConfidence == 85

\* CONFIG["sources"]: B and A have one owner; A and C have different owners
\* but two institutional holders in common; B and C are unrelated, and D is
\* unrelated to the three others.
ConfigIds == {"A", "B", "C", "D"}
UnknownId == "U"
SourceIds == ConfigIds \cup {UnknownId}

\* a configured source whose feed delivers nothing in the cycles modelled
QuietId == "D"
FeedIds == ConfigIds \ {QuietId}

Owner(s) == CASE s = "A" -> "o1" [] s = "B" -> "o1" [] s = "C" -> "o2" [] s = "D" -> "o3"

Holders(s) ==
    CASE s = "A" -> {"h1", "h2"} [] s = "B" -> {"h1"} [] s = "C" -> {"h1", "h2", "h3"}
      [] s = "D" -> {"h3"}

\* source["ratings"]["accuracy"], in tenths
AccuracyTenths(s) == CASE s = "A" -> 90 [] s = "B" -> 80 [] s = "C" -> 90 [] s = "D" -> 80

(***************************************************************************)
(* Rationals                                                               *)
(***************************************************************************)
RECURSIVE Gcd(_, _)
Gcd(a, b) == IF b = 0 THEN a ELSE Gcd(b, a % b)

Abs(n) == IF n < 0 THEN 0 - n ELSE n

\* n/d in lowest terms, d > 0
Rat(n, d) == LET g == Gcd(Abs(n), d) IN <<n \div g, d \div g>>
RatAdd(a, b) == Rat(a[1] * b[2] + b[1] * a[2], a[2] * b[2])
RatSub(a, b) == Rat(a[1] * b[2] - b[1] * a[2], a[2] * b[2])
RatMul(a, b) == Rat(a[1] * b[1], a[2] * b[2])
RatEq(a, b) == a[1] * b[2] = b[1] * a[2]
RatLt(a, b) == a[1] * b[2] < b[1] * a[2]
RatLe(a, b) == a[1] * b[2] <= b[1] * a[2]

(***************************************************************************)
(* Source registry                                                         *)
(***************************************************************************)
\* faulty variant: related only above the threshold
are_sources_unrelated_gt(source1_id, source2_id) ==
    IF source1_id \notin ConfigIds \/ source2_id \notin ConfigIds THEN FALSE
    ELSE IF Owner(source1_id) = Owner(source2_id) THEN FALSE
    ELSE LET shared == Holders(source1_id) \cap Holders(source2_id)
         IN  ~(Cardinality(shared) > MaxSharedTopHolders)

are_sources_unrelated(source1_id, source2_id) ==
    IF source1_id \notin ConfigIds \/ source2_id \notin ConfigIds THEN FALSE
    ELSE IF Owner(source1_id) = Owner(source2_id) THEN FALSE
    ELSE LET holders1 == Holders(source1_id)
             holders2 == Holders(source2_id)
             shared == holders1 \cap holders2
         IN  IF Cardinality(shared) >= MaxSharedTopHolders THEN FALSE ELSE TRUE

(***************************************************************************)
(* Reliability ledger                                                      *)
(***************************************************************************)
\* ratings is the dict of learned_ratings.json: a function whose domain is the
\* set of source ids that have a record.
Bump(r, source_id, field) ==
    LET base == IF source_id \in DOMAIN r THEN r[source_id]
                ELSE [successes |-> 0, failures |-> 0]
        upd == [base EXCEPT ![field] = @ + 1]
    IN  [s \in (DOMAIN r) \cup {source_id} |-> IF s = source_id THEN upd ELSE r[s]]

record_verification_success(r, source_id) == Bump(r, source_id, "successes")

record_verification_failure(r, source_id) == Bump(r, source_id, "failures")

\* fact_hash=None, the default of both recording functions
NoHash == <<>>

\* ratings_audit.jsonl after append_audit_log; the wall-clock timestamp of the
\* entry, which nothing reads, is left out
append_audit_log(a, source_id, event, fact_hash) ==
    Append(a, [source_id |-> source_id, event |-> event, fact_hash |-> fact_hash])

\* faulty variant: the audit trail is not written
AuditAfter_skip(a, source_id, event, fact_hash) == a

\* "if fact_hash: append_audit_log(...)" of both recording functions
AuditAfter(a, source_id, event, fact_hash) ==
    IF fact_hash = NoHash THEN a
    ELSE append_audit_log(a, source_id, event, fact_hash)

Successes(r, s) == IF s \in DOMAIN r THEN r[s].successes ELSE 0
Failures(r, s) == IF s \in DOMAIN r THEN r[s].failures ELSE 0
Observations(r, s) == Successes(r, s) + Failures(r, s)

ConfigAccuracy(s) == Rat(AccuracyTenths(s), 10)
FallbackRating == Rat(5, 1)

\* faulty variant: blend weight total/10
get_learned_rating_w10(r, source_id) ==
    IF source_id \notin DOMAIN r
    THEN IF source_id \in ConfigIds THEN ConfigAccuracy(source_id) ELSE FallbackRating
    ELSE LET stats == r[source_id]
             total == stats.successes + stats.failures
         IN  IF total < MaturityThreshold
             THEN IF source_id \in ConfigIds
                  THEN LET default == ConfigAccuracy(source_id)
                           learned == IF total > 0
                                      THEN RatMul(Rat(stats.successes, total), Rat(10, 1))
                                      ELSE default
                           weight == Rat(total, 10)
                       IN  RatAdd(RatMul(default, RatSub(Rat(1, 1), weight)),
                                  RatMul(learned, weight))
                  ELSE FallbackRating
             ELSE RatMul(Rat(stats.successes, total), Rat(10, 1))

\* faulty variant: blends below 10 observations
get_learned_rating_lt10(r, source_id) ==
    IF source_id \notin DOMAIN r
    THEN IF source_id \in ConfigIds THEN ConfigAccuracy(source_id) ELSE FallbackRating
    ELSE LET stats == r[source_id]
             total == stats.successes + stats.failures
         IN  IF total < 10
             THEN IF source_id \in ConfigIds
                  THEN LET default == ConfigAccuracy(source_id)
                           learned == IF total > 0
                                      THEN RatMul(Rat(stats.successes, total), Rat(10, 1))
                                      ELSE default
                           weight == Rat(total, MaturityThreshold)
                       IN  RatAdd(RatMul(default, RatSub(Rat(1, 1), weight)),
                                  RatMul(learned, weight))
                  ELSE FallbackRating
             ELSE RatMul(Rat(stats.successes, total), Rat(10, 1))

get_learned_rating(r, source_id) ==
    IF source_id \notin DOMAIN r
    THEN IF source_id \in ConfigIds THEN ConfigAccuracy(source_id) ELSE FallbackRating
    ELSE LET stats == r[source_id]
             total == stats.successes + stats.failures
         IN  IF total < MaturityThreshold
             THEN IF source_id \in ConfigIds
                  THEN LET default == ConfigAccuracy(source_id)
                           learned == IF total > 0
                                      THEN RatMul(Rat(stats.successes, total), Rat(10, 1))
                                      ELSE default
                           weight == Rat(total, MaturityThreshold)
                       IN  RatAdd(RatMul(default, RatSub(Rat(1, 1), weight)),
                                  RatMul(learned, weight))
                  ELSE FallbackRating
             ELSE RatMul(Rat(stats.successes, total), Rat(10, 1))

get_reliability_score(r, source_id, confidence) ==
    LET rating == get_learned_rating(r, source_id)
    IN  RatMul(rating, Rat(confidence, 100))

(***************************************************************************)
(* Texts and the content hasher                                            *)
(***************************************************************************)
FactAtoms == {"f1a", "f1b", "f1c", "f2a"}
DetailAtoms == {"d1", "d2"}
HeadlineTexts == {<<"H1">>, <<"H2">>}
SkipText == <<"SKIP">>
RetractedPrefix == <<"[RETRACTED]">>
Paraphrase == <<"para">>

\* text.split(): the words of one atom
WordsOf(a) ==
    CASE a = "f1a" -> {"quake", "hits", "city"}
      [] a = "F1A" -> {"QUAKE", "HITS", "CITY"}
      [] a = "f1a_ws" -> {"quake", "hits", "city"}
      [] a = "F1A_ws" -> {"QUAKE", "HITS", "CITY"}
      [] a = "f1b" -> {"quake", "strikes", "city"}
      [] a = "f1c" -> {"quake", "in", "city"}
      [] a = "f2a" -> {"bank", "raises", "rates"}
      [] a = "d1" -> {"toll", "rises"}
      [] a = "d2" -> {"roads", "closed"}
      [] a = "para" -> {"tremor", "in", "town"}
      [] a = "[RETRACTED]" -> {"[retracted]"}
      [] OTHER -> {a}

ShortWords == {"in"}

LowerWord(w) ==
    CASE w = "QUAKE" -> "quake" [] w = "HITS" -> "hits" [] w = "CITY" -> "city"
      [] OTHER -> w

\* "f1a_ws" is the sentence "f1a" with other whitespace (leading, trailing, runs
\* and tabs between the words), "F1A" and "F1A_ws" are the two in capitals;
\* lower() changes the letters and keeps the whitespace
LowerAtom(a) == CASE a = "F1A" -> "f1a" [] a = "F1A_ws" -> "f1a_ws" [] OTHER -> a

\* str.lower()
Lower(text) == [i \in DOMAIN text |-> LowerAtom(text[i])]

\* md5(text.lower()) truncated: the hash is identified with the hashed string
get_story_hash(text) == Lower(text)

get_story_audio_id(fact) == get_story_hash(fact)

\* set(w.lower() for w in text.split())
LowerWords(text) == {LowerWord(w) : w \in UNION {WordsOf(text[i]) : i \in DOMAIN text}}

Min(a, b) == IF a <= b THEN a ELSE b

has_word_overlap(fact1, fact2) ==
    LET words1 == LowerWords(fact1) \ ShortWords
        words2 == LowerWords(fact2) \ ShortWords
        shared == words1 \cap words2
        min_len == Min(Cardinality(words1), Cardinality(words2))
    IN  IF words1 = {} \/ words2 = {} THEN FALSE
        ELSE Cardinality(shared) * 100 >= min_len * 15

(***************************************************************************)
(* Dates and the per-day files                                             *)
(***************************************************************************)
Today == now \div TicksPerDay
\* the date of a file that does not exist yet
NoDate == 0 - 1
Dates == 0..(MaxNow \div TicksPerDay)
EmptyMap == [x \in {} |-> 0]
SeqRange(s) == {s[i] : i \in DOMAIN s}

load_shown_hashes == IF shown.date = Today THEN shown.hashes ELSE {}

add_shown_hash(story_hash) ==
    [date |-> Today, hashes |-> load_shown_hashes \cup {story_hash}]

load_processed_headlines == IF processed.date = Today THEN processed.hashes ELSE {}

add_processed_headline(headline_hash) ==
    [date |-> Today, hashes |-> load_processed_headlines \cup {headline_hash}]

is_headline_processed(headline_text, processed_cache) ==
    get_story_hash(headline_text) \in processed_cache

load_fact_extraction_cache ==
    IF factCache.date = Today THEN factCache ELSE [date |-> Today, map |-> EmptyMap]

\* today's facts of stories.json
load_published_stories ==
    IF stories.date = Today THEN [i \in DOMAIN stories.list |-> stories.list[i].fact]
    ELSE <<>>

(***************************************************************************)
(* Fact extraction                                                         *)
(***************************************************************************)
Json(f, c, n) == [path |-> "json", fact |-> <<f>>, confidence |-> c, newsworthy |-> n]

\* What the extraction oracle can reply: a JSON object, text from which only
\* the regex fallback recovers the fact, or nothing usable (text without a
\* fact, or an API error).
Responses ==
    { Json("f1a", 90, "true"), Json("f1b", 80, "true"),
      Json("f2a", 50, "true"), Json("f2a", 90, "false"),
      [path |-> "regex", fact |-> <<"f1b">>, confidence |-> 0, newsworthy |-> "false"],
      [path |-> "none", fact |-> SkipText, confidence |-> 0, newsworthy |-> "true"] }

\* The result dict of extract_fact for a reply; a field the dict lacks is "absent".
ParseResponse(resp) ==
    CASE resp.path = "json" ->
           [fact |-> resp.fact, confidence |-> resp.confidence, newsworthy |-> resp.newsworthy]
      [] resp.path = "regex" ->
           [fact |-> resp.fact, confidence |-> FallbackConfidence, newsworthy |-> "absent"]
      [] OTHER ->
           [fact |-> SkipText, confidence |-> 0, newsworthy |-> "absent"]

IsCached(headline) == get_story_hash(headline) \in DOMAIN factCache.map

\* The replies that can reach extract_fact: none is asked for on a cache hit.
ExtractResponses(headline) ==
    IF IsCached(headline) THEN {[path |-> "cached"]} ELSE Responses

extract_fact(headline, resp) ==
    IF IsCached(headline) THEN factCache.map[get_story_hash(headline)]
    ELSE ParseResponse(resp)

save_fact_extraction(headline, resp) ==
    IF IsCached(headline) \/ resp.path \notin {"json", "regex"} THEN factCache
    ELSE LET h == get_story_hash(headline)
         IN  [date |-> Today,
              map |-> [k \in (DOMAIN factCache.map) \cup {h} |->
                          IF k = h THEN ParseResponse(resp) ELSE factCache.map[k]]]

\* confidence threshold and newsworthiness threshold of process_cycle
PassesGate(result) ==
    /\ result.fact # SkipText
    /\ ~(result.confidence < MinConfidence)
    /\ result.newsworthy # "false"

(***************************************************************************)
(* Verification queue                                                      *)
(***************************************************************************)
\* faulty variant: expiry records nothing
RecordFailures_none(r, items) == r

RECURSIVE RecordFailures(_, _)
\* the record_verification_failure calls of clean_expired_queue, in queue order
RecordFailures(r, items) ==
    IF items = <<>> THEN r
    ELSE RecordFailures(record_verification_failure(r, Head(items).source_id), Tail(items))

RECURSIVE AuditFailures(_, _)
\* the audit entries of the same calls
AuditFailures(a, items) ==
    IF items = <<>> THEN a
    ELSE AuditFailures(AuditAfter(a, Head(items).source_id, "failure",
                                  get_story_hash(Head(items).fact)),
                       Tail(items))

IsFresh(item) == item.timestamp > now - QueueTimeoutHours

IsExpired(item) == ~IsFresh(item)

\* faulty variant: nothing expires
clean_expired_queue_keep(q) == q

clean_expired_queue(q) == SelectSeq(q, IsFresh)

ExpiredOf(q) == SelectSeq(q, IsExpired)

\* candidates of find_matching_stories: the entries that pass the pre-filter
Candidates(fact, q) ==
    LET Overlaps(item) == has_word_overlap(fact, item.fact)
    IN  SelectSeq(q, Overlaps)

MaxAnswerLen == 2

\* find_matching_stories: the lists of matches the same-event oracle can make
\* the function return, one per answer (NONE, or candidate numbers in any order)
MatchAnswers(fact, q) ==
    LET candidates == Candidates(fact, q)
        n == Len(candidates)
        answers == UNION {[1..k -> 1..n] : k \in 0..Min(n, MaxAnswerLen)}
    IN  IF q = <<>> \/ n = 0 THEN {<<>>}
        ELSE {[i \in DOMAIN a |-> candidates[a[i]]] :
                a \in {b \in answers : \A i, j \in DOMAIN b : i # j => b[i] # b[j]}}

\* is_duplicate: the results the duplicate oracle can make it return
DupAnswers(fact) ==
    LET published == load_published_stories
        candidates == {i \in DOMAIN published : has_word_overlap(fact, published[i])}
    IN  IF get_story_hash(fact) \in load_shown_hashes THEN {TRUE}
        ELSE IF candidates = {} THEN {FALSE}
        ELSE BOOLEAN

\* faulty variant: every match goes on
UnrelatedMatches_any(source_id, matches) == matches

\* "for match in matches: if are_sources_unrelated(...)": the matches the loop
\* goes on with, in order
UnrelatedMatches(source_id, matches) ==
    LET Unrelated(match) == are_sources_unrelated(source_id, match.source_id)
    IN  SelectSeq(matches, Unrelated)

\* faulty variant: the queued wording wins a tie
BestFact_ge(r, headline, fact, confidence, match) ==
    IF RatLe(get_reliability_score(r, headline.source_id, confidence),
             get_reliability_score(r, match.source_id, match.confidence))
    THEN match.fact ELSE fact

\* the wording process_cycle publishes for a verified pair
BestFact(r, headline, fact, confidence, match) ==
    LET new_reliability == get_reliability_score(r, headline.source_id, confidence)
        queue_confidence == match.confidence
        queue_reliability == get_reliability_score(r, match.source_id, queue_confidence)
    IN  IF RatLt(new_reliability, queue_reliability) THEN match.fact ELSE fact

\* faulty variant: only the headline's source is credited
CreditSources_one(r, headline_source, match_source) ==
    record_verification_success(r, headline_source)

\* "Record verification success for BOTH sources"
CreditSources(r, headline_source, match_source) ==
    record_verification_success(record_verification_success(r, headline_source), match_source)

\* the audit entries of the same two calls
CreditAudit(a, headline_source, match_source, fact_hash) ==
    AuditAfter(AuditAfter(a, headline_source, "success", fact_hash),
               match_source, "success", fact_hash)

\* queue = [q for q in queue if q["fact"] != match["fact"]]
RemoveMatched(q, match) ==
    LET Keeps(item) == item.fact # match.fact
    IN  SelectSeq(q, Keeps)

(***************************************************************************)
(* Publication ledger                                                      *)
(***************************************************************************)
\* f"{x:.1f}": tenths of a rational, ties to even
Round1(x) ==
    LET n == x[1] * 10
        fl == n \div x[2]
        rem == n % x[2]
    IN  IF 2 * rem > x[2] THEN fl + 1
        ELSE IF 2 * rem < x[2] THEN fl
        ELSE IF fl % 2 = 0 THEN fl ELSE fl + 1

get_display_rating(r, source_id) ==
    LET default_rating == IF source_id \in ConfigIds THEN ConfigAccuracy(source_id)
                          ELSE FallbackRating
        successes == Successes(r, source_id)
        total == Observations(r, source_id)
        learned == RatMul(Rat(successes, total), Rat(10, 1))
        weight == Rat(total, 10)
        blended == RatAdd(RatMul(default_rating, RatSub(Rat(1, 1), weight)),
                          RatMul(learned, weight))
    IN  IF source_id \notin DOMAIN r \/ total = 0
        THEN [tenths |-> Round1(default_rating), star |-> TRUE, evidence |-> <<>>]
        ELSE IF total < 10
        THEN [tenths |-> Round1(blended), star |-> TRUE, evidence |-> <<successes, total>>]
        ELSE [tenths |-> Round1(learned), star |-> FALSE, evidence |-> <<successes, total>>]

\* whether speech synthesis succeeds
TtsOutcomes == {TRUE}

\* the filename generate_tts returns, False when synthesis failed
generate_tts(text, ok) == IF ok THEN <<"mp3", get_story_audio_id(text)>> ELSE <<"False">>

\* the line of the daily log: timestamp|names|scores|urls|audio|fact
LogLine(r, fact, sources, audio_file) ==
    << Today,
       [i \in DOMAIN sources |-> sources[i]],
       [i \in DOMAIN sources |-> get_display_rating(r, sources[i])],
       [i \in DOMAIN sources |-> <<"url", sources[i]>>],
       IF audio_file = <<"False">> THEN <<>> ELSE audio_file,
       fact >>

append_daily_log(r, fact, sources, audio_file) ==
    [dailyLog EXCEPT ![Today] = Append(@, LogLine(r, fact, sources, audio_file))]

generate_story_id(date, index) == <<date, index>>

\* faulty variant: the stories already in the file are not kept
update_stories_json_reset(fact, sources, audio_file) ==
    [date |-> Today,
     list |-> <<[id |-> generate_story_id(Today, 0),
                 hash |-> fact,
                 fact |-> fact,
                 source |-> sources,
                 audio |-> IF audio_file = <<"False">> THEN <<"current">>
                           ELSE <<"archive", Today, audio_file>>,
                 status |-> "published",
                 original_fact |-> <<>>,
                 record |-> "none"]>>]

\* a story without the keys original_fact and correction/retraction has
\* original_fact <<>> and record "none"
update_stories_json(fact, sources, audio_file) ==
    LET old == IF stories.date = Today THEN stories.list ELSE <<>>
        story == [id |-> generate_story_id(Today, Len(old)),
                  hash |-> fact,
                  fact |-> fact,
                  source |-> sources,
                  audio |-> IF audio_file = <<"False">> THEN <<"current">>
                            ELSE <<"archive", Today, audio_file>>,
                  status |-> "published",
                  original_fact |-> <<>>,
                  record |-> "none"]
    IN  [date |-> Today, list |-> Append(old, story)]

\* parts[3] of every line of today's log, last 20
get_recent_facts == [i \in DOMAIN dailyLog[Today] |-> dailyLog[Today][i][4]]

\* check_contradiction: the results the contradiction oracle can make it return
ContradictionAnswers == IF get_recent_facts = <<>> THEN {FALSE} ELSE BOOLEAN

\* The loop over the matches: a contradiction "continue"s to the next unrelated
\* match, a publication "break"s. The index of the match that is published
\* from, 0 when every unrelated match was blocked by a contradiction.
VerifiedChoices(unrelated) ==
    IF TRUE \in ContradictionAnswers THEN 0..Len(unrelated) ELSE {1}

(***************************************************************************)
(* Correction engine                                                       *)
(***************************************************************************)
HeaderLines == 4

\* the stories of the archived daily logs of the previous days
ArchivedStories ==
    LET days == {d \in Dates : d < Today /\ d > Today - 7}
    IN  UNION {{[id |-> generate_story_id(d, HeaderLines + i - 1),
                 fact |-> dailyLog[d][i][4],
                 status |-> "published"] : i \in DOMAIN dailyLog[d]} : d \in days}

\* get_recent_stories_for_correction, as the id, fact and status of every story
get_recent_stories_for_correction(st) ==
    {[id |-> st.list[i].id, fact |-> st.list[i].fact, status |-> st.list[i].status] :
        i \in DOMAIN st.list} \cup ArchivedStories

AbsentId == <<NoDate, 0>>

NoCorrection == [needs_correction |-> FALSE]

\* detect_correction_needed: what the correction oracle can make it return. The
\* oracle names a listed story and gives its text back verbatim (to retract or
\* correct it) or in its own words, or names a story that does not exist.
CorrectionAnswers(recent_stories) ==
    LET check_stories == {s \in recent_stories : s.status = "published"}
        Reply(story_id, original_fact, correction_type) ==
            [needs_correction |-> TRUE, story_id |-> story_id,
             original_fact |-> original_fact, correction_type |-> correction_type]
        replies == UNION {{Reply(s.id, s.fact, "retraction"),
                           Reply(s.id, s.fact, "correction"),
                           Reply(s.id, Paraphrase, "correction")} : s \in check_stories}
                   \cup {Reply(AbsentId, Paraphrase, "correction")}
    IN  IF check_stories = {} THEN {NoCorrection} ELSE {NoCorrection} \cup replies

HasStory(st, story_id) == \E i \in DOMAIN st.list : st.list[i].id = story_id

FirstWithId(st, story_id) ==
    CHOOSE i \in DOMAIN st.list :
        st.list[i].id = story_id /\ \A j \in DOMAIN st.list : st.list[j].id = story_id => i <= j

\* stories.json after issue_correction
issue_correction(st, story_id, original_fact, corrected_fact) ==
    IF ~HasStory(st, story_id) THEN st
    ELSE LET k == FirstWithId(st, story_id)
         IN  [st EXCEPT !.list[k] = [@ EXCEPT !.status = "corrected",
                                               !.original_fact = original_fact,
                                               !.fact = corrected_fact,
                                               !.record = "correction"]]

\* faulty variant: the story is marked without the original text and the record
issue_retraction_bare(st, story_id, original_fact) ==
    IF ~HasStory(st, story_id) THEN st
    ELSE LET k == FirstWithId(st, story_id)
         IN  [st EXCEPT !.list[k] = [@ EXCEPT !.status = "retracted",
                                               !.fact = RetractedPrefix \o original_fact]]

\* stories.json after issue_retraction
issue_retraction(st, story_id, original_fact) ==
    IF ~HasStory(st, story_id) THEN st
    ELSE LET k == FirstWithId(st, story_id)
         IN  [st EXCEPT !.list[k] = [@ EXCEPT !.status = "retracted",
                                               !.original_fact = original_fact,
                                               !.fact = RetractedPrefix \o original_fact,
                                               !.record = "retraction"]]

\* the record both functions append to corrections.json
CorrectionRecord(corr, corrected_fact) ==
    [story_id |-> corr.story_id,
     type |-> corr.correction_type,
     original_fact |-> corr.original_fact,
     corrected_fact |-> IF corr.correction_type = "retraction" THEN <<>> ELSE corrected_fact]

\* the correction block of process_cycle on stories.json
ApplyCorrection(st, corr, best_fact) ==
    IF ~corr.needs_correction THEN st
    ELSE IF corr.correction_type = "retraction"
         THEN issue_retraction(st, corr.story_id, corr.original_fact)
         ELSE issue_correction(st, corr.story_id, corr.original_fact, best_fact)

(***************************************************************************)
(* Late detail                                                             *)
(***************************************************************************)
\* index of the first of today's stories that shares more than 30% of the
\* words of the shorter text, 0 if there is none
find_matching_published_story(new_fact) ==
    LET new_words == LowerWords(new_fact)
        Matches(i) ==
            LET existing_words == LowerWords(stories.list[i].fact)
                overlap == Cardinality(new_words \cap existing_words)
                min_len == Min(Cardinality(new_words), Cardinality(existing_words))
            IN  min_len > 0 /\ overlap * 10 > 3 * min_len
        hits == {i \in DOMAIN stories.list : Matches(i)}
    IN  IF stories.date # Today \/ hits = {} THEN 0
        ELSE CHOOSE i \in hits : \A j \in hits : i <= j

\* extract_new_details: the sentences the delta oracle can make it return,
\* <<>> for NO_NEW_INFO
DeltaAnswers == {<<>>} \cup {<<d>> : d \in DetailAtoms}

\* faulty variant: the detail is published as a story of its own
update_published_story_new(st, story_index, additional_detail, source_id, tts_ok) ==
    LET story == st.list[story_index]
        updated_fact == story.fact \o additional_detail
    IN  [st EXCEPT !.list = Append(@, [story EXCEPT
            !.id = generate_story_id(Today, Len(st.list)),
            !.fact = updated_fact,
            !.source = Append(@, source_id)])]

update_published_story(st, story_index, additional_detail, source_id, tts_ok) ==
    LET story == st.list[story_index]
        updated_fact == story.fact \o additional_detail
        new_audio_file == generate_tts(updated_fact, tts_ok)
    IN  [st EXCEPT !.list[story_index] =
            [@ EXCEPT !.fact = updated_fact,
                      !.source = IF source_id \in SeqRange(@) THEN @ ELSE Append(@, source_id),
                      !.audio = IF tts_ok THEN <<"archive", Today, new_audio_file>> ELSE @]]

(***************************************************************************)
(* Operator alerts                                                         *)
(***************************************************************************)
Services == {"claude", "elevenlabs", "twilio"}

\* no heartbeat file yet, no offline alert sent, no archive run
NoBeat == 0 - 1
NoMonitor ==
    [heartbeat |-> NoBeat, offline_alert_sent |-> FALSE,
     archive_done_for |-> NoDate, archived |-> <<>>]

\* the alert types and their cooldowns, in ticks
ALERT_COOLDOWNS ==
    [api_failure |-> 1, credits_low |-> 2, queue_backup |-> 2, offline |-> 0,
     contradiction |-> 0, general |-> 1]

Put(f, k, v) == [x \in (DOMAIN f) \cup {k} |-> IF x = k THEN v ELSE f[x]]

\* faulty variant: the time of the alert is not remembered
should_send_alert_forget(c, alert_type, t) ==
    LET cooldown == IF alert_type \in DOMAIN ALERT_COOLDOWNS
                    THEN ALERT_COOLDOWNS[alert_type] ELSE ALERT_COOLDOWNS["general"]
    IN  [ok |-> cooldown = 0 \/ alert_type \notin DOMAIN c \/ t - c[alert_type] >= cooldown,
         cooldowns |-> IF alert_type \in DOMAIN c THEN c ELSE Put(c, alert_type, t)]

\* should_send_alert at time t: its result and _alert_cooldowns after it. A
\* type never sent before has last_sent 0, the epoch.
should_send_alert(c, alert_type, t) ==
    LET cooldown == IF alert_type \in DOMAIN ALERT_COOLDOWNS
                    THEN ALERT_COOLDOWNS[alert_type] ELSE ALERT_COOLDOWNS["general"]
        elapsed == alert_type \notin DOMAIN c \/ t - c[alert_type] >= cooldown
    IN  IF cooldown = 0 THEN [ok |-> TRUE, cooldowns |-> c]
        ELSE IF elapsed THEN [ok |-> TRUE, cooldowns |-> Put(c, alert_type, t)]
        ELSE [ok |-> FALSE, cooldowns |-> c]

\* the record a call of send_alert leaves: sent is whether it ended in
\* "Alert sent", i.e. Twilio took the message
AlertLine(message, alert_type, t, sent) ==
    [message |-> message, type |-> alert_type, at |-> t, sent |-> sent]

\* what Twilio does with a message and with the one sent from inside it
Outcomes == {<<x, y>> : x, y \in BOOLEAN}
Accepted == <<TRUE, TRUE>>

\* send_alert and track_api_failure on a = [cooldowns, log, failures] at time
\* t; send_alert reports its outcome to track_api_failure("twilio", ...),
\* which after three failures in a row sends an alert itself
RECURSIVE send_alert(_, _, _, _, _)
track_api_failure(a, service, success, t, outcomes) ==
    IF success THEN [a EXCEPT !.failures[service] = 0]
    ELSE LET counted == [a EXCEPT !.failures[service] = @ + 1]
         IN  IF counted.failures[service] >= 3
             THEN LET check == should_send_alert(counted.cooldowns, "api_failure", t)
                      b == [counted EXCEPT !.cooldowns = check.cooldowns]
                      c == IF check.ok
                           THEN send_alert(b, <<"API failed">>, "api_failure", t, outcomes)
                           ELSE b
                  IN  [c EXCEPT !.failures[service] = 0]
             ELSE counted

send_alert(a, message, alert_type, t, outcomes) ==
    LET check == IF alert_type # "api_failure"
                 THEN should_send_alert(a.cooldowns, alert_type, t)
                 ELSE [ok |-> TRUE, cooldowns |-> a.cooldowns]
        b == [a EXCEPT !.cooldowns = check.cooldowns]
        accepted == outcomes # <<>> /\ Head(outcomes)
        rest == IF outcomes = <<>> THEN <<>> ELSE Tail(outcomes)
    IN  IF ~check.ok
        THEN [b EXCEPT !.log = Append(@, AlertLine(message, alert_type, t, FALSE))]
        ELSE track_api_failure(
                 [b EXCEPT !.log = Append(@, AlertLine(message, alert_type, t, accepted))],
                 "twilio", accepted, t, rest)

\* send_alert(f"Contradiction: {best_fact[:50]}") for the facts blocked one
\* after the other
RECURSIVE ContradictionAlerts(_, _, _)
ContradictionAlerts(a, facts, t) ==
    IF facts = <<>> THEN a
    ELSE ContradictionAlerts(
             send_alert(a, <<"Contradiction", Head(facts)>>, "general", t, Accepted),
             Tail(facts), t)

\* send_alert of issue_correction / issue_retraction
CorrectionAlert(a, corr, t) ==
    IF ~corr.needs_correction THEN a
    ELSE IF corr.correction_type = "retraction"
         THEN send_alert(a, <<"RETRACTION">>, "general", t, Accepted)
         ELSE send_alert(a, <<"CORRECTION">>, "general", t, Accepted)

\* the alert state of the process. In the cycle Twilio takes every message, so
\* the cycle leaves consecutiveFailures, which is 0 everywhere, as it is.
Alerts == [cooldowns |-> alertCooldowns, log |-> alertLog, failures |-> consecutiveFailures]

(***************************************************************************)
(* The cycle                                                               *)
(***************************************************************************)
\* entries that earlier cycles, run on other headline texts, have left in
\* queue.json: the same-event oracle answered NONE when they were queued
Seed(source_id, atom, confidence) ==
    [fact |-> <<atom>>, source_id |-> source_id, timestamp |-> 0,
     confidence |-> confidence]

\* queue.json at the start
SeedQueues ==
    { <<>>,
      <<Seed("A", "f1a", 90)>>,
      <<Seed("C", "f1c", 90), Seed("B", "f1a", 90)>> }

Init ==
    /\ now = 0
    /\ scraped = 0
    /\ pc = "idle"
    /\ queueFile \in SeedQueues
    /\ queue = <<>>
    /\ headlines = <<>>
    /\ processedCache = {}
    /\ processed = [date |-> NoDate, hashes |-> {}]
    /\ factCache = [date |-> NoDate, map |-> EmptyMap]
    /\ ratings = EmptyMap
    /\ stories = [date |-> NoDate, list |-> <<>>]
    /\ shown = [date |-> NoDate, hashes |-> {}]
    /\ dailyLog = [d \in Dates |-> <<>>]
    /\ corrections = <<>>
    /\ audit = <<>>
    /\ faults = 0
    /\ alertCooldowns = EmptyMap
    /\ alertLog = <<>>
    /\ consecutiveFailures = [service \in Services |-> 0]
    /\ killSwitch = FALSE
    /\ monitor = NoMonitor
    /\ pubHeadlines = [date |-> NoDate, hashes |-> {}]
    /\ probe = [a |-> UnknownId, b |-> UnknownId, res |-> FALSE]

\* position of a source in CONFIG["sources"]
SourceOrder(s) == CASE s = "A" -> 1 [] s = "B" -> 2 [] s = "C" -> 3

\* scrape_all_sources: the headlines of one cycle, source by source. Headline
\* texts are interchangeable, so they are named in the order they first appear:
\* the first headline ever scraped is H1.
Batches ==
    {b \in UNION {[1..n -> HeadlineTexts \X FeedIds] :
                     n \in 0..Min(MaxBatch, MaxHeadlines - scraped)} :
        /\ \A i \in DOMAIN b : i < Len(b) => SourceOrder(b[i][2]) <= SourceOrder(b[i + 1][2])
        /\ (scraped = 0 /\ b # <<>>) => b[1][1] = <<"H1">>}

\* process_cycle up to the headline loop
StartCycle ==
    /\ pc = "idle"
    /\ ~killSwitch
    /\ pc' = "loop"
    /\ queue' = clean_expired_queue(queueFile)
    /\ ratings' = RecordFailures(ratings, ExpiredOf(queueFile))
    /\ audit' = AuditFailures(audit, ExpiredOf(queueFile))
    /\ \E b \in Batches :
         /\ headlines' = [i \in DOMAIN b |->
                             [text |-> b[i][1], source_id |-> b[i][2], timestamp |-> now]]
         /\ scraped' = scraped + Len(b)
    /\ processedCache' = load_processed_headlines
    /\ factCache' = load_fact_extraction_cache
    /\ UNCHANGED <<now, queueFile, processed, stories, shown, dailyLog, corrections,
                   faults, alertCooldowns, alertLog, consecutiveFailures, killSwitch, monitor,
                   pubHeadlines, probe>>

Files == <<queue, ratings, stories, shown, dailyLog, corrections, audit, pubHeadlines>>
Rest == <<Files, alertCooldowns, alertLog>>

\* the history of the headline texts a story was published from today
PublishedFrom(headline_text) ==
    [date |-> Today,
     hashes |-> (IF pubHeadlines.date = Today THEN pubHeadlines.hashes ELSE {})
                \cup {get_story_hash(headline_text)}]

\* best_fact of the first n unrelated matches, which a contradiction blocked
BlockedFacts(headline, fact, confidence, unrelated, n) ==
    [j \in 1..n |-> BestFact(ratings, headline, fact, confidence, unrelated[j])]

\* "VERIFIED! Two unrelated sources" to the end of the correction block, for
\* the match that no contradiction blocked, after the matches that were
Verify(headline, fact, confidence, match, blocked) ==
    LET best_fact == BestFact(ratings, headline, fact, confidence, match)
        sources == <<headline.source_id, match.source_id>>
    IN  \E tts_ok \in TtsOutcomes :
          LET audio_file == generate_tts(best_fact, tts_ok)
              published == update_stories_json(best_fact, sources, audio_file)
          IN  /\ dailyLog' = append_daily_log(ratings, best_fact, sources, audio_file)
              /\ shown' = add_shown_hash(get_story_hash(best_fact))
              /\ queue' = RemoveMatched(queue, match)
              /\ ratings' = CreditSources(ratings, headline.source_id, match.source_id)
              /\ audit' = CreditAudit(audit, headline.source_id, match.source_id,
                                      get_story_hash(best_fact))
              /\ pubHeadlines' = PublishedFrom(headline.text)
              /\ \E corr \in CorrectionAnswers(get_recent_stories_for_correction(published)) :
                   /\ stories' = ApplyCorrection(published, corr, best_fact)
                   /\ corrections' = IF corr.needs_correction
                                     THEN Append(corrections, CorrectionRecord(corr, best_fact))
                                     ELSE corrections
                   /\ LET a == CorrectionAlert(ContradictionAlerts(Alerts, blocked, now),
                                               corr, now)
                      IN  /\ alertCooldowns' = a.cooldowns
                          /\ alertLog' = a.log

QueueEntry(headline, fact, confidence) ==
    [fact |-> fact, source_id |-> headline.source_id,
     timestamp |-> headline.timestamp, confidence |-> confidence]

Enqueue(headline, fact, confidence) ==
    /\ queue' = Append(queue, QueueEntry(headline, fact, confidence))
    /\ UNCHANGED <<ratings, stories, shown, dailyLog, corrections, audit, pubHeadlines,
                   alertCooldowns, alertLog>>

\* "No match in queue": merge late detail into a published story, or queue
NoQueueMatch(headline, fact, confidence) ==
    LET published_match == find_matching_published_story(fact)
    IN  IF published_match # 0
           /\ headline.source_id \notin SeqRange(stories.list[published_match].source)
        THEN \E new_detail \in DeltaAnswers :
               IF new_detail # <<>>
               THEN \E tts_ok \in TtsOutcomes :
                      /\ stories' = update_published_story(stories, published_match,
                                                           new_detail, headline.source_id, tts_ok)
                      /\ ratings' = record_verification_success(ratings, headline.source_id)
                      /\ audit' = AuditAfter(audit, headline.source_id, "success",
                                             get_story_hash(stories.list[published_match].fact))
                      /\ UNCHANGED <<queue, shown, dailyLog, corrections, pubHeadlines,
                                     alertCooldowns, alertLog>>
               ELSE Enqueue(headline, fact, confidence)
        ELSE Enqueue(headline, fact, confidence)

\* the body of the headline loop for a fact that passed the thresholds
HandleFact(headline, fact, confidence) ==
    \E duplicate \in DupAnswers(fact) :
      IF duplicate THEN UNCHANGED Rest
      ELSE \E matches \in MatchAnswers(fact, queue) :
             IF matches # <<>>
             THEN LET unrelated == UnrelatedMatches(headline.source_id, matches)
                  IN  IF unrelated = <<>> THEN UNCHANGED Rest
                      ELSE \E k \in VerifiedChoices(unrelated) :
                             IF k = 0
                             THEN LET a == ContradictionAlerts(
                                               Alerts,
                                               BlockedFacts(headline, fact, confidence,
                                                            unrelated, Len(unrelated)),
                                               now)
                                  IN  /\ alertCooldowns' = a.cooldowns
                                      /\ alertLog' = a.log
                                      /\ UNCHANGED Files
                             ELSE Verify(headline, fact, confidence, unrelated[k],
                                         BlockedFacts(headline, fact, confidence,
                                                      unrelated, k - 1))
             ELSE NoQueueMatch(headline, fact, confidence)

\* one iteration of "for headline in headlines"
ProcessHeadline ==
    /\ pc = "loop"
    /\ headlines # <<>>
    /\ headlines' = Tail(headlines)
    /\ UNCHANGED <<now, scraped, pc, queueFile, processedCache, faults,
                   consecutiveFailures, killSwitch, monitor, probe>>
    /\ LET headline == Head(headlines)
       IN  IF is_headline_processed(headline.text, processedCache)
           THEN UNCHANGED <<processed, factCache, Rest>>
           ELSE /\ processed' = add_processed_headline(get_story_hash(headline.text))
                /\ \E resp \in ExtractResponses(headline.text) :
                     LET result == extract_fact(headline.text, resp)
                     IN  /\ factCache' = save_fact_extraction(headline.text, resp)
                         /\ IF PassesGate(result)
                            THEN HandleFact(headline, result.fact, result.confidence)
                            ELSE UNCHANGED Rest

\* "Save queue" and the return of process_cycle
EndCycle ==
    /\ pc = "loop"
    /\ headlines = <<>>
    /\ queueFile' = queue
    /\ queue' = <<>>
    /\ processedCache' = {}
    /\ pc' = "idle"
    /\ UNCHANGED <<now, scraped, headlines, processed, factCache, ratings, stories, shown,
                   dailyLog, corrections, audit, faults, alertCooldowns, alertLog,
                   consecutiveFailures, killSwitch, monitor, pubHeadlines, probe>>

\* the sleep of the main loop between two cycles
Tick ==
    /\ pc = "idle"
    /\ now < MaxNow
    /\ now' = now + 1
    /\ UNCHANGED <<scraped, pc, queueFile, queue, headlines, processedCache, processed,
                   factCache, ratings, stories, shown, dailyLog, corrections, audit,
                   faults, alertCooldowns, alertLog, consecutiveFailures, killSwitch, monitor,
                   pubHeadlines, probe>>

Next == StartCycle \/ ProcessHeadline \/ EndCycle \/ Tick

Spec == Init /\ [][Next]_vars

(***************************************************************************)
(* The cycle after an earlier cycle of the day has published a story       *)
(***************************************************************************)
\* the headline of the earlier cycle and the fact it published
EarlierHeadline == <<"H0">>
EarlierFact == <<"f1a">>

\* The files as that cycle left them: source C's headline was verified against
\* the entry the quiet source had queued, and the story was published.
InitMerge ==
    /\ now = 0
    /\ scraped = 0
    /\ pc = "idle"
    /\ queueFile = <<>>
    /\ queue = <<>>
    /\ headlines = <<>>
    /\ processedCache = {}
    /\ are_sources_unrelated("C", QuietId)
    /\ processed = [date |-> Today, hashes |-> {get_story_hash(EarlierHeadline)}]
    /\ factCache = [date |-> Today,
                    map |-> [k \in {get_story_hash(EarlierHeadline)} |->
                                ParseResponse(Json("f1a", 90, "true"))]]
    /\ ratings = CreditSources(EmptyMap, "C", QuietId)
    /\ LET sources == <<"C", QuietId>>
           audio_file == generate_tts(EarlierFact, TRUE)
       IN  /\ stories = [date |-> Today,
                         list |-> <<[id |-> generate_story_id(Today, 0),
                                     hash |-> EarlierFact,
                                     fact |-> EarlierFact,
                                     source |-> sources,
                                     audio |-> <<"archive", Today, audio_file>>,
                                     status |-> "published",
                                     original_fact |-> <<>>,
                                     record |-> "none"]>>]
           /\ dailyLog = [d \in Dates |->
                             IF d = Today
                             THEN <<LogLine(EmptyMap, EarlierFact, sources, audio_file)>>
                             ELSE <<>>]
    /\ shown = [date |-> Today, hashes |-> {get_story_hash(EarlierFact)}]
    /\ corrections = <<>>
    /\ audit = CreditAudit(<<>>, "C", QuietId, get_story_hash(EarlierFact))
    /\ faults = 0
    /\ alertCooldowns = EmptyMap
    /\ alertLog = <<>>
    /\ consecutiveFailures = [service \in Services |-> 0]
    /\ killSwitch = FALSE
    /\ monitor = NoMonitor
    /\ pubHeadlines = [date |-> Today, hashes |-> {get_story_hash(EarlierHeadline)}]
    /\ probe = [a |-> UnknownId, b |-> UnknownId, res |-> FALSE]

SpecMerge == InitMerge /\ [][Next]_vars

(***************************************************************************)
(* The cycle when the ledger's storage fails                               *)
(***************************************************************************)
\* Where a call of record_verification_success / record_verification_failure
\* raises: reading or writing learned_ratings.json (before anything is
\* written), or appending to ratings_audit.jsonl (after the counter is saved).
LedgerFaults == {"ratings", "audit"}

\* learned_ratings.json after a call that raises at the fault
FailedRecord(r, source_id, field, fault) ==
    IF fault = "ratings" THEN r ELSE Bump(r, source_id, field)

\* Nothing in process_cycle catches the exception: it reaches "except
\* Exception" of main, which logs "Cycle error" and sleeps. The locals of the
\* cycle are gone and queue.json is not written.
CycleAborted ==
    /\ faults < MaxFaults
    /\ faults' = faults + 1
    /\ pc' = "idle"
    /\ headlines' = <<>>
    /\ queue' = <<>>
    /\ processedCache' = {}
    /\ UNCHANGED <<now, scraped, queueFile, consecutiveFailures, killSwitch, monitor, probe>>

\* clean_expired_queue raises at its k-th expired item
ExpiryFails ==
    /\ pc = "idle"
    /\ \E k \in DOMAIN ExpiredOf(queueFile), fault \in LedgerFaults :
         LET expired == ExpiredOf(queueFile)
             before == SubSeq(expired, 1, k - 1)
         IN  /\ ratings' = FailedRecord(RecordFailures(ratings, before),
                                        expired[k].source_id, "failures", fault)
             /\ audit' = AuditFailures(audit, before)
    /\ CycleAborted
    /\ UNCHANGED <<processed, factCache, stories, shown, dailyLog, corrections,
                   alertCooldowns, alertLog, pubHeadlines>>

\* the verified branch when the first (n = 1) or the second (n = 2) of its
\* record_verification_success calls raises: the story is already written
VerifyFails(headline, fact, confidence, match, blocked) ==
    LET best_fact == BestFact(ratings, headline, fact, confidence, match)
        sources == <<headline.source_id, match.source_id>>
        fact_hash == get_story_hash(best_fact)
    IN  \E tts_ok \in TtsOutcomes, n \in {1, 2}, fault \in LedgerFaults :
          LET audio_file == generate_tts(best_fact, tts_ok)
              first == record_verification_success(ratings, headline.source_id)
          IN  /\ dailyLog' = append_daily_log(ratings, best_fact, sources, audio_file)
              /\ stories' = update_stories_json(best_fact, sources, audio_file)
              /\ shown' = add_shown_hash(fact_hash)
              /\ pubHeadlines' = PublishedFrom(headline.text)
              /\ ratings' = IF n = 1
                            THEN FailedRecord(ratings, headline.source_id, "successes", fault)
                            ELSE FailedRecord(first, match.source_id, "successes", fault)
              /\ audit' = IF n = 1 THEN audit
                          ELSE AuditAfter(audit, headline.source_id, "success", fact_hash)
              /\ UNCHANGED corrections
              /\ LET a == ContradictionAlerts(Alerts, blocked, now)
                 IN  /\ alertCooldowns' = a.cooldowns
                     /\ alertLog' = a.log

\* the merge branch when its record_verification_success call raises: the
\* story is already updated
MergeFails(headline, fact) ==
    LET published_match == find_matching_published_story(fact)
    IN  /\ published_match # 0
        /\ headline.source_id \notin SeqRange(stories.list[published_match].source)
        /\ \E new_detail \in DeltaAnswers \ {<<>>}, tts_ok \in TtsOutcomes,
              fault \in LedgerFaults :
             /\ stories' = update_published_story(stories, published_match,
                                                  new_detail, headline.source_id, tts_ok)
             /\ ratings' = FailedRecord(ratings, headline.source_id, "successes", fault)
             /\ UNCHANGED <<audit, shown, dailyLog, corrections, pubHeadlines,
                            alertCooldowns, alertLog>>

\* an iteration of the headline loop that reaches a recording call that raises
ProcessHeadlineFails ==
    /\ pc = "loop"
    /\ headlines # <<>>
    /\ CycleAborted
    /\ LET headline == Head(headlines)
       IN  /\ ~is_headline_processed(headline.text, processedCache)
           /\ processed' = add_processed_headline(get_story_hash(headline.text))
           /\ \E resp \in ExtractResponses(headline.text) :
                LET result == extract_fact(headline.text, resp)
                IN  /\ factCache' = save_fact_extraction(headline.text, resp)
                    /\ PassesGate(result)
                    /\ \E duplicate \in DupAnswers(result.fact) :
                         /\ ~duplicate
                         /\ \E matches \in MatchAnswers(result.fact, queue) :
                              IF matches # <<>>
                              THEN LET unrelated == UnrelatedMatches(headline.source_id, matches)
                                   IN  \E k \in VerifiedChoices(unrelated) \ {0} :
                                         /\ k \in DOMAIN unrelated
                                         /\ VerifyFails(headline, result.fact,
                                                        result.confidence, unrelated[k],
                                                        BlockedFacts(headline, result.fact,
                                                                     result.confidence,
                                                                     unrelated, k - 1))
                              ELSE MergeFails(headline, result.fact)

NextIO == Next \/ ExpiryFails \/ ProcessHeadlineFails

SpecIO == Init /\ [][NextIO]_vars

(***************************************************************************)
(* The cycle when the extraction oracle leaves a field out                 *)
(***************************************************************************)
\* a key the parsed JSON object does not have
NoFact == <<>>
NoConfidence == 0 - 1

\* Replies that json.loads parses but that lack "fact" or "confidence":
\* extract_fact caches and returns the parsed object as it is.
MalformedResponses ==
    { [path |-> "json", fact |-> NoFact, confidence |-> 90, newsworthy |-> "true"],
      [path |-> "json", fact |-> <<"f1a">>, confidence |-> NoConfidence,
       newsworthy |-> "true"] }

\* result["fact"] or result["confidence"] of process_cycle raises KeyError
Raises(result) ==
    \/ result.fact = NoFact
    \/ result.fact # SkipText /\ result.confidence = NoConfidence

\* an iteration of the headline loop whose extraction result lacks a field
ExtractionRaises ==
    /\ pc = "loop"
    /\ headlines # <<>>
    /\ CycleAborted
    /\ LET headline == Head(headlines)
       IN  /\ ~is_headline_processed(headline.text, processedCache)
           /\ ~IsCached(headline.text)
           /\ processed' = add_processed_headline(get_story_hash(headline.text))
           /\ \E resp \in MalformedResponses :
                /\ Raises(extract_fact(headline.text, resp))
                /\ factCache' = save_fact_extraction(headline.text, resp)
    /\ UNCHANGED <<ratings, stories, shown, dailyLog, corrections, audit, pubHeadlines,
                   alertCooldowns, alertLog>>

NextOracle == Next \/ ExtractionRaises

SpecOracle == Init /\ [][NextOracle]_vars

(***************************************************************************)
(* The ledger and the registry on their own                                *)
(***************************************************************************)
RECURSIVE SumObservations(_, _)
SumObservations(r, ids) ==
    IF ids = {} THEN 0
    ELSE LET s == CHOOSE x \in ids : TRUE
         IN  Observations(r, s) + SumObservations(r, ids \ {s})

LedgerFrame == <<now, scraped, pc, queueFile, queue, headlines, processedCache, processed,
                 factCache, stories, shown, dailyLog, corrections, audit, faults,
                 alertCooldowns, alertLog, consecutiveFailures, killSwitch, monitor, pubHeadlines>>

\* The ledger actions call the recording functions without a fact hash, so
\* they write no audit entry.
RecordSuccess ==
    /\ SumObservations(ratings, SourceIds) < MaxObs
    /\ \E s \in SourceIds : ratings' = record_verification_success(ratings, s)
    /\ UNCHANGED <<LedgerFrame, probe>>

RecordFailure ==
    /\ SumObservations(ratings, SourceIds) < MaxObs
    /\ \E s \in SourceIds : ratings' = record_verification_failure(ratings, s)
    /\ UNCHANGED <<LedgerFrame, probe>>

ProbeUnrelated ==
    /\ \E a, b \in SourceIds :
         probe' = [a |-> a, b |-> b, res |-> are_sources_unrelated(a, b)]
    /\ UNCHANGED <<LedgerFrame, ratings>>

NextLedger == RecordSuccess \/ RecordFailure \/ ProbeUnrelated

InitLedger == Init /\ queueFile = <<>>

SpecLedger == InitLedger /\ [][NextLedger]_vars

(***************************************************************************)
(* The story hash on its own                                               *)
(***************************************************************************)
\* sentences that differ in letter case or whitespace only, and another one
VariantAtoms == {"f1a", "F1A", "f1a_ws", "F1A_ws", "f1b"}
VariantTexts == {<<a>> : a \in VariantAtoms} \cup {<<a, b>> : a, b \in VariantAtoms}

\* the fast path of is_duplicate for new_fact after shown_fact was published:
\* add_shown_hash(get_story_hash(shown_fact)), then "story_hash in shown"
FastPathDuplicate(shown_fact, new_fact) ==
    get_story_hash(new_fact) \in {get_story_hash(shown_fact)}

HashProbe ==
    /\ \E a, b \in VariantTexts :
         probe' = [a |-> a, b |-> b, res |-> FastPathDuplicate(a, b)]
    /\ UNCHANGED <<LedgerFrame, ratings>>

InitHash ==
    /\ now = 0
    /\ scraped = 0
    /\ pc = "idle"
    /\ queueFile = <<>>
    /\ queue = <<>>
    /\ headlines = <<>>
    /\ processedCache = {}
    /\ processed = [date |-> NoDate, hashes |-> {}]
    /\ factCache = [date |-> NoDate, map |-> EmptyMap]
    /\ ratings = EmptyMap
    /\ stories = [date |-> NoDate, list |-> <<>>]
    /\ shown = [date |-> NoDate, hashes |-> {}]
    /\ dailyLog = [d \in Dates |-> <<>>]
    /\ corrections = <<>>
    /\ audit = <<>>
    /\ faults = 0
    /\ alertCooldowns = EmptyMap
    /\ alertLog = <<>>
    /\ consecutiveFailures = [service \in Services |-> 0]
    /\ killSwitch = FALSE
    /\ monitor = NoMonitor
    /\ pubHeadlines = [date |-> NoDate, hashes |-> {}]
    /\ probe = [a |-> <<"f1a">>, b |-> <<"f1a">>, res |-> TRUE]

SpecHash == InitHash /\ [][HashProbe]_vars

(***************************************************************************)
(* The alerts on their own                                                 *)
(***************************************************************************)
MaxClock == 3
MaxAlerts == 3

AlertFrame == <<scraped, pc, queueFile, queue, headlines, processedCache, processed,
                factCache, ratings, stories, shown, dailyLog, corrections, audit, faults,
                killSwitch, monitor, pubHeadlines, probe>>

SetAlerts(a) ==
    /\ alertCooldowns' = a.cooldowns
    /\ alertLog' = a.log
    /\ consecutiveFailures' = a.failures

\* a call send_alert(message) with the default type
RaiseGeneral ==
    /\ Len(alertLog) < MaxAlerts
    /\ \E outcomes \in Outcomes : SetAlerts(send_alert(Alerts, <<"General">>, "general", now, outcomes))
    /\ UNCHANGED <<now, AlertFrame>>

\* track_api_failure("claude", success) after a call of the oracle
TrackApiFailure ==
    /\ Len(alertLog) < MaxAlerts
    /\ \E success \in BOOLEAN, outcomes \in Outcomes :
           SetAlerts(track_api_failure(Alerts, "claude", success, now, outcomes))
    /\ UNCHANGED <<now, AlertFrame>>

\* should_send_alert(alert_type) and, if it says yes, send_alert(..., alert_type)
CheckedAlert(a, message, alert_type, t, outcomes) ==
    LET check == should_send_alert(a.cooldowns, alert_type, t)
        b == [a EXCEPT !.cooldowns = check.cooldowns]
    IN  IF check.ok THEN send_alert(b, message, alert_type, t, outcomes) ELSE b

\* check_budget_alert with the costs above 80% of the budget
check_budget_alert ==
    /\ Len(alertLog) < MaxAlerts
    /\ \E outcomes \in Outcomes :
           SetAlerts(CheckedAlert(Alerts, <<"API costs">>, "credits_low", now, outcomes))
    /\ UNCHANGED <<now, AlertFrame>>

\* the queue backup alert of the monitor with the queue above its limits
QueueBackupAlert ==
    /\ Len(alertLog) < MaxAlerts
    /\ \E outcomes \in Outcomes :
           SetAlerts(CheckedAlert(Alerts, <<"Queue backup">>, "queue_backup", now, outcomes))
    /\ UNCHANGED <<now, AlertFrame>>

Wait ==
    /\ now < MaxClock
    /\ now' = now + 1
    /\ UNCHANGED <<AlertFrame, alertCooldowns, alertLog, consecutiveFailures>>

NextAlerts ==
    \/ RaiseGeneral
    \/ TrackApiFailure
    \/ check_budget_alert
    \/ QueueBackupAlert
    \/ Wait

InitAlerts == Init /\ queueFile = <<>>

SpecAlerts == InitAlerts /\ [][NextAlerts]_vars

(***************************************************************************)
(* The cycle and the kill switch                                           *)
(***************************************************************************)
KillFrame == <<now, scraped, queueFile, queue, headlines, processedCache, processed,
               factCache, ratings, stories, shown, dailyLog, corrections, audit, faults,
               alertCooldowns, alertLog, consecutiveFailures, monitor, pubHeadlines, probe>>

\* the operator creates the file KILL_SWITCH, at any moment
KillSwitchAppears ==
    /\ ~killSwitch
    /\ killSwitch' = TRUE
    /\ UNCHANGED <<pc, KillFrame>>

\* the operator removes it
KillSwitchRemoved ==
    /\ killSwitch
    /\ pc # "stopped"
    /\ killSwitch' = FALSE
    /\ UNCHANGED <<pc, KillFrame>>

\* faulty variant: the switch is looked at between two headlines, too
Stop_midcycle ==
    /\ pc \in {"idle", "loop"}
    /\ killSwitch
    /\ pc' = "stopped"
    /\ UNCHANGED <<killSwitch, KillFrame>>

\* process_cycle finds KILL_SWITCH: sys.exit(0), which main does not catch
Stop ==
    /\ pc = "idle"
    /\ killSwitch
    /\ pc' = "stopped"
    /\ UNCHANGED <<killSwitch, KillFrame>>

\* the cycles of one clock reading
NextKill ==
    \/ StartCycle
    \/ ProcessHeadline
    \/ EndCycle
    \/ KillSwitchAppears
    \/ KillSwitchRemoved
    \/ Stop

InitKill == Init /\ queueFile = <<>>

\* the headline loop is straight-line code: once entered it takes its next
\* iteration and, after the last one, saves the queue
SpecKill ==
    /\ InitKill
    /\ [][NextKill]_vars
    /\ WF_vars(ProcessHeadline)
    /\ WF_vars(EndCycle)

(***************************************************************************)
(* The retry wrapper around fact extraction                                *)
(***************************************************************************)
\* @retry_with_backoff(max_retries=3, base_delay=1.0, ...) on extract_fact
MaxRetries == 3
BaseDelay == 1

RetryableExceptions ==
    {"ConnectionError", "TimeoutError", "OSError", "APITimeoutError",
     "APIConnectionError", "RateLimitError", "InternalServerError"}

\* what one call of client.messages.create can do: reply, or raise
ApiOutcomes == {"reply", "ConnectionError", "RateLimitError", "ValueError"}

\* what the oracle does at each of the calls that could be made
ApiRuns == [1..(MaxRetries + 1) -> ApiOutcomes]

\* the body of extract_fact for one call of the oracle, cache aside: what it
\* raises and what it returns. Its own "except Exception" turns every
\* exception of the call into a SKIP result.
ExtractAttempt(outcome) ==
    IF outcome = "reply" THEN [raised |-> "none", value |-> <<"f1a">>]
    ELSE [raised |-> "none", value |-> SkipText]

\* the wrapper of retry_with_backoff from its attempt-th iteration on: the
\* number of calls of the body, the delays slept, and how it ends
RECURSIVE retry_with_backoff(_, _, _)
retry_with_backoff(api, attempt, delays) ==
    LET r == ExtractAttempt(api[attempt + 1])
    IN  IF r.raised = "none"
        THEN [calls |-> attempt + 1, delays |-> delays, raised |-> "none", value |-> r.value]
        ELSE IF r.raised \notin RetryableExceptions
        THEN [calls |-> attempt + 1, delays |-> delays, raised |-> r.raised, value |-> <<>>]
        ELSE IF attempt < MaxRetries
        THEN retry_with_backoff(api, attempt + 1, Append(delays, BaseDelay * (2 ^ attempt)))
        ELSE [calls |-> attempt + 1, delays |-> delays, raised |-> r.raised, value |-> <<>>]

\* extract_fact(headline) as process_cycle calls it, for a headline not cached
RetryProbe ==
    /\ \E api \in ApiRuns :
          probe' = [a |-> api, b |-> UnknownId, res |-> retry_with_backoff(api, 0, <<>>)]
    /\ UNCHANGED <<LedgerFrame, ratings>>

InitRetry ==
    /\ now = 0
    /\ scraped = 0
    /\ pc = "idle"
    /\ queueFile = <<>>
    /\ queue = <<>>
    /\ headlines = <<>>
    /\ processedCache = {}
    /\ processed = [date |-> NoDate, hashes |-> {}]
    /\ factCache = [date |-> NoDate, map |-> EmptyMap]
    /\ ratings = EmptyMap
    /\ stories = [date |-> NoDate, list |-> <<>>]
    /\ shown = [date |-> NoDate, hashes |-> {}]
    /\ dailyLog = [d \in Dates |-> <<>>]
    /\ corrections = <<>>
    /\ audit = <<>>
    /\ faults = 0
    /\ alertCooldowns = EmptyMap
    /\ alertLog = <<>>
    /\ consecutiveFailures = [service \in Services |-> 0]
    /\ killSwitch = FALSE
    /\ monitor = NoMonitor
    /\ pubHeadlines = [date |-> NoDate, hashes |-> {}]
    /\ probe = LET api == [i \in 1..(MaxRetries + 1) |-> "reply"]
               IN  [a |-> api, b |-> UnknownId, res |-> retry_with_backoff(api, 0, <<>>)]

SpecRetry == InitRetry /\ [][RetryProbe]_vars

(***************************************************************************)
(* The process dies while it saves the queue                               *)
(***************************************************************************)
\* the entry json.dump was writing when the process died: cut off
Torn == [fact |-> <<>>, source_id |-> "torn", timestamp |-> 0, confidence |-> 0]

\* what queue.json can hold when the process dies inside save_queue(q):
\* open(queue_file, 'w') has emptied the file, json.dump has written part of q
TornFiles(q) == {Append(SubSeq(q, 1, k), Torn) : k \in 0..Len(q)}

\* save_queue at the end of a cycle, with the process killed (power loss,
\* SIGKILL, out of memory) before, inside or after the write
CrashDuringSave ==
    /\ pc = "loop"
    /\ headlines = <<>>
    /\ pc' = "crashed"
    /\ queueFile' \in {queueFile, queue} \cup TornFiles(queue)
    /\ UNCHANGED <<now, scraped, queue, headlines, processedCache, processed, factCache,
                   ratings, stories, shown, dailyLog, corrections, audit, faults,
                   alertCooldowns, alertLog, consecutiveFailures, killSwitch, monitor,
                   pubHeadlines, probe>>

NextCrash == Next \/ CrashDuringSave

SpecCrash == Init /\ [][NextCrash]_vars

(***************************************************************************)
(* The cycle with a story published today and two entries waiting          *)
(***************************************************************************)
InitBlock ==
    /\ now = 0
    /\ scraped = 0
    /\ pc = "idle"
    /\ queueFile = <<Seed("C", "f1c", 90), Seed("B", "f1a", 90)>>
    /\ queue = <<>>
    /\ headlines = <<>>
    /\ processedCache = {}
    /\ are_sources_unrelated("C", QuietId)
    /\ processed = [date |-> Today, hashes |-> {get_story_hash(EarlierHeadline)}]
    /\ factCache = [date |-> Today,
                    map |-> [k \in {get_story_hash(EarlierHeadline)} |->
                                ParseResponse(Json("f1a", 90, "true"))]]
    /\ ratings = CreditSources(EmptyMap, "C", QuietId)
    /\ LET sources == <<"C", QuietId>>
           audio_file == generate_tts(EarlierFact, TRUE)
       IN  /\ stories = [date |-> Today,
                         list |-> <<[id |-> generate_story_id(Today, 0),
                                     hash |-> EarlierFact,
                                     fact |-> EarlierFact,
                                     source |-> sources,
                                     audio |-> <<"archive", Today, audio_file>>,
                                     status |-> "published",
                                     original_fact |-> <<>>,
                                     record |-> "none"]>>]
           /\ dailyLog = [d \in Dates |->
                             IF d = Today
                             THEN <<LogLine(EmptyMap, EarlierFact, sources, audio_file)>>
                             ELSE <<>>]
    /\ shown = [date |-> Today, hashes |-> {get_story_hash(EarlierFact)}]
    /\ corrections = <<>>
    /\ audit = CreditAudit(<<>>, "C", QuietId, get_story_hash(EarlierFact))
    /\ faults = 0
    /\ alertCooldowns = EmptyMap
    /\ alertLog = <<>>
    /\ consecutiveFailures = [service \in Services |-> 0]
    /\ killSwitch = FALSE
    /\ monitor = NoMonitor
    /\ pubHeadlines = [date |-> Today, hashes |-> {get_story_hash(EarlierHeadline)}]
    /\ probe = [a |-> UnknownId, b |-> UnknownId, res |-> FALSE]

SpecBlock == InitBlock /\ [][Next]_vars

(***************************************************************************)
(* The late-detail merge when stories.json cannot be updated               *)
(***************************************************************************)
\* update_published_story when reading or writing stories.json raises: the
\* function logs the error and returns False, the file is as it was
update_published_story_failed(st, story_index, additional_detail, source_id) == st

\* an iteration of the headline loop that takes the merge branch while
\* update_published_story fails; process_cycle does not look at the result
UpdateStoryFails ==
    /\ pc = "loop"
    /\ headlines # <<>>
    /\ headlines' = Tail(headlines)
    /\ UNCHANGED <<now, scraped, pc, queueFile, processedCache, faults,
                   consecutiveFailures, killSwitch, monitor, probe>>
    /\ LET headline == Head(headlines)
       IN  /\ ~is_headline_processed(headline.text, processedCache)
           /\ processed' = add_processed_headline(get_story_hash(headline.text))
           /\ \E resp \in ExtractResponses(headline.text) :
                LET result == extract_fact(headline.text, resp)
                    published_match == find_matching_published_story(result.fact)
                IN  /\ factCache' = save_fact_extraction(headline.text, resp)
                    /\ PassesGate(result)
                    /\ FALSE \in DupAnswers(result.fact)
                    /\ <<>> \in MatchAnswers(result.fact, queue)
                    /\ published_match # 0
                    /\ headline.source_id \notin SeqRange(stories.list[published_match].source)
                    /\ \E new_detail \in DeltaAnswers \ {<<>>} :
                         /\ stories' = update_published_story_failed(
                                           stories, published_match, new_detail,
                                           headline.source_id)
                         /\ ratings' = record_verification_success(ratings, headline.source_id)
                         /\ audit' = AuditAfter(audit, headline.source_id, "success",
                                                get_story_hash(stories.list[published_match].fact))
                         /\ UNCHANGED <<queue, shown, dailyLog, corrections, pubHeadlines,
                                        alertCooldowns, alertLog>>

NextUpdate == StartCycle \/ ProcessHeadline \/ EndCycle \/ Tick \/ UpdateStoryFails

SpecUpdate == InitMerge /\ [][NextUpdate]_vars

(***************************************************************************)
(* The stream monitor of the main loop                                     *)
(***************************************************************************)
\* STREAM_OFFLINE_THRESHOLD, in ticks
STREAM_OFFLINE_THRESHOLD == 1

MonitorFrame == <<scraped, pc, queueFile, queue, headlines, processedCache, processed,
                  factCache, ratings, stories, shown, dailyLog, corrections, audit, faults,
                  killSwitch, pubHeadlines, probe>>

\* write_heartbeat at time t; a failing write is logged and leaves the file
write_heartbeat(m, t, written) ==
    IF written THEN [m EXCEPT !.heartbeat = t] ELSE m

\* check_stream_health on s = [monitor, alerts] at time t
check_stream_health(s, t) ==
    IF s.monitor.heartbeat = NoBeat THEN s
    ELSE IF t - s.monitor.heartbeat > STREAM_OFFLINE_THRESHOLD
    THEN IF ~s.monitor.offline_alert_sent
         THEN [monitor |-> [s.monitor EXCEPT !.offline_alert_sent = TRUE],
               alerts |-> send_alert(s.alerts, <<"Stream offline">>, "general", t, Accepted)]
         ELSE s
    ELSE [s EXCEPT !.monitor.offline_alert_sent = FALSE]

\* the top of an iteration of main: write_heartbeat(), check_stream_health()
MainLoopTop ==
    /\ \E written \in BOOLEAN :
          LET s == check_stream_health(
                       [monitor |-> write_heartbeat(monitor, now, written), alerts |-> Alerts],
                       now)
          IN  /\ monitor' = s.monitor
              /\ SetAlerts(s.alerts)
    /\ UNCHANGED <<now, MonitorFrame>>

\* the clock goes on with no heartbeat written: the process is down or stuck
Silence ==
    /\ now < MaxClock
    /\ now' = now + 1
    /\ UNCHANGED <<MonitorFrame, monitor, alertCooldowns, alertLog, consecutiveFailures>>

\* faulty variant: no idempotency guard
check_midnight_archive_again(m, in_window) ==
    IF ~in_window THEN m
    ELSE [m EXCEPT !.archive_done_for = Today, !.archived = Append(@, Today - 1)]

\* check_midnight_archive with the clock inside or outside 06:00-06:04 UTC:
\* archived gets the date the archive sequence (audio, digest, daily log,
\* cleanup) was started for, whether or not the sequence then raises
check_midnight_archive(m, in_window) ==
    IF ~in_window THEN m
    ELSE IF m.archive_done_for = Today THEN m
    ELSE [m EXCEPT !.archive_done_for = Today, !.archived = Append(@, Today - 1)]

\* main: check_midnight_archive(), on every iteration, also one that follows
\* a failed cycle a minute later
CheckMidnightArchive ==
    /\ \E in_window \in BOOLEAN : monitor' = check_midnight_archive(monitor, in_window)
    /\ UNCHANGED <<now, MonitorFrame, alertCooldowns, alertLog, consecutiveFailures>>

NextStream ==
    \/ MainLoopTop
    \/ CheckMidnightArchive
    \/ Silence
    \/ RaiseGeneral

InitStream == Init /\ queueFile = <<>>

\* main runs its loop for ever: the top of the loop comes again and again
SpecStream == InitStream /\ [][NextStream]_vars /\ WF_vars(MainLoopTop)

(***************************************************************************)
(* Properties                                                              *)
(***************************************************************************)
TodaysStories == IF stories.date = Today THEN stories.list ELSE <<>>

SharedHolders(a, b) == {h \in Holders(a) : h \in Holders(b)}

\* the registry's definition of independence, spelled out
Independent(a, b) ==
    /\ a \in ConfigIds
    /\ b \in ConfigIds
    /\ a # b
    /\ Owner(a) # Owner(b)
    /\ Cardinality(SharedHolders(a, b)) < MaxSharedTopHolders

\* a step of the headline loop that publishes a story
Publishes ==
    /\ pc = "loop"
    /\ headlines # <<>>
    /\ Len(dailyLog'[Today]) = Len(dailyLog[Today]) + 1

\* the line the publishing step has written
NewLine == dailyLog'[Today][Len(dailyLog'[Today])]

\* C1: every published story was corroborated by two sources that are both
\* known, distinct, of different owners and with fewer common institutional
\* holders than the threshold, whatever the same-event oracle answered.
C1_IndependenceGating ==
    \A i \in DOMAIN stories.list :
        Independent(stories.list[i].source[1], stories.list[i].source[2])

C1_Witness ==
    \E i \in DOMAIN stories.list : stories.list[i].source[1] = "C" /\ stories.list[i].source[2] = "B"

\* C2: processing a headline whose text a story was already published from
\* today never adds a story to today's stories.
C2_IdempotentDedup ==
    [][ ( /\ pc = "loop"
          /\ headlines # <<>>
          /\ pubHeadlines.date = Today
          /\ get_story_hash(Head(headlines).text) \in pubHeadlines.hashes )
        => Len(dailyLog'[Today]) = Len(dailyLog[Today]) ]_vars

\* age of a queue entry has reached the timeout
PastTimeout(item) == now - item.timestamp >= QueueTimeoutHours

CountOf(q, s, P(_)) == Cardinality({i \in DOMAIN q : q[i].source_id = s /\ P(q[i])})

\* C3: at the start of a cycle every entry past the timeout is dropped from
\* the queue, its source is charged one failure per such entry, no success is
\* recorded, no story is published, and no such entry is in the queue the
\* headlines of the cycle are matched against.
C3_ExpiryRecordsFailure ==
    [][ /\ (pc = "idle" /\ pc' = "loop") =>
              /\ \A i \in DOMAIN queueFile :
                    PastTimeout(queueFile[i]) => queueFile[i] \notin SeqRange(queue')
              /\ \A s \in SourceIds :
                    /\ Failures(ratings', s) =
                          Failures(ratings, s) + CountOf(queueFile, s, PastTimeout)
                    /\ Successes(ratings', s) = Successes(ratings, s)
              /\ stories' = stories
              /\ dailyLog' = dailyLog
        /\ (pc = "loop") => \A i \in DOMAIN queue : ~PastTimeout(queue[i]) ]_vars

C3_Witness ==
    /\ pc = "loop"
    /\ \E i \in DOMAIN queueFile :
          /\ PastTimeout(queueFile[i])
          /\ Failures(ratings, queueFile[i].source_id) >= 1
          /\ queueFile[i] \notin SeqRange(queue)

\* the extraction result of the headline being processed
IncomingResult == factCache'.map[get_story_hash(Head(headlines).text)]

\* the entries the publishing step took out of the queue
Removed == {queue[i] : i \in {j \in DOMAIN queue : queue[j] \notin SeqRange(queue')}}

\* C4: the text published for a verified pair is the queued wording when the
\* queued reliability score is strictly greater than the incoming one, and
\* the incoming wording when the incoming score is higher or the scores are equal.
C4_TieBreak ==
    [][ Publishes =>
          \E m \in Removed :
             /\ m.source_id = NewLine[2][2]
             /\ LET incoming == get_reliability_score(ratings, Head(headlines).source_id,
                                                      IncomingResult.confidence)
                    queued == get_reliability_score(ratings, m.source_id, m.confidence)
                IN  NewLine[6] = IF incoming[1] * queued[2] < queued[1] * incoming[2]
                                 THEN m.fact ELSE IncomingResult.fact ]_vars

\* a tie: C at 80% against the queued B at 90%, the incoming wording published
C4_Witness ==
    \E i \in DOMAIN dailyLog[Today] :
        /\ dailyLog[Today][i][2] = <<"C", "B">>
        /\ dailyLog[Today][i][6] = <<"f1b">>
        /\ dailyLog[Today][i][3][1].evidence = <<>>
        /\ dailyLog[Today][i][3][2].evidence = <<>>

\* C5: when a step corrects or retracts a story, the original_fact stored on
\* it is the fact text the story held before the step.
C5_CorrectionPreservesOriginal ==
    [][ \A i \in DOMAIN stories.list :
          ( /\ stories'.date = stories.date
            /\ stories.list[i].status = "published"
            /\ stories'.list[i].status # "published" )
          => stories'.list[i].original_fact = stories.list[i].fact ]_vars

\* C6: are_sources_unrelated is true exactly for two known sources of
\* different owners with fewer common holders than the threshold.
C6_UnrelatedIff ==
    probe.res = ( /\ probe.a \in ConfigIds
                  /\ probe.b \in ConfigIds
                  /\ Owner(probe.a) # Owner(probe.b)
                  /\ Cardinality(SharedHolders(probe.a, probe.b)) < MaxSharedTopHolders )

C6_Witness == probe.a = "B" /\ probe.b = "C" /\ probe.res

CountSource(q, s) == Cardinality({i \in DOMAIN q : q[i].source_id = s})

\* how many entries of source s leave the queue in the step
Leaves(s) ==
    IF pc = "idle" /\ pc' = "loop" THEN CountSource(queueFile, s) - CountSource(queue', s)
    ELSE IF pc = "loop" /\ pc' = "loop" THEN CountSource(queue, s) - CountSource(queue', s)
    ELSE 0

\* C7: an entry leaves the queue only by expiry, with one failure for its
\* source, or by verification, with a success for its source and a story
\* crediting it; never without a ledger event and never with both.
C7_QueueTransitions ==
    [][ \A s \in SourceIds :
          Leaves(s) > 0 =>
            \/ /\ pc = "idle"
               /\ Failures(ratings', s) = Failures(ratings, s) + Leaves(s)
               /\ Successes(ratings', s) = Successes(ratings, s)
            \/ /\ Publishes
               /\ Successes(ratings', s) = Successes(ratings, s) + Leaves(s)
               /\ Failures(ratings', s) = Failures(ratings, s)
               /\ s \in SeqRange(NewLine[2]) ]_vars

\* C8: a verification appends exactly one story, adds one success to the
\* headline's source and one to the matched entry's source, and changes no
\* other counter.
C8_VerificationCredits ==
    [][ Publishes =>
          /\ Len(stories'.list) = Len(TodaysStories) + 1
          /\ stories'.date = Today
          /\ NewLine[2][1] = Head(headlines).source_id
          /\ \A s \in SourceIds :
                /\ Successes(ratings', s) =
                      Successes(ratings, s) + (IF s \in SeqRange(NewLine[2]) THEN 1 ELSE 0)
                /\ Failures(ratings', s) = Failures(ratings, s) ]_vars

C8_Witness ==
    /\ dailyLog[Today] # <<>>
    /\ Successes(ratings, "B") >= 1
    /\ Successes(ratings, "C") >= 1

\* C9: the learned rating is the baseline for a source without observations,
\* the blend baseline*(1 - n/M) + (10*successes/n)*(n/M) for 0 < n < M, and
\* 10*successes/n for n >= M.
C9_LearnedRatingFormula ==
    \A s \in ConfigIds :
        LET n == Observations(ratings, s)
            k == Successes(ratings, s)
            x == get_learned_rating(ratings, s)
            M == MaturityThreshold
        IN  /\ n = 0 => x[1] * 10 = AccuracyTenths(s) * x[2]
            /\ (0 < n /\ n < M) =>
                  x[1] * (10 * M) = (AccuracyTenths(s) * (M - n) + 100 * k) * x[2]
            /\ n >= M => x[1] * n = 10 * k * x[2]

C9_Witness ==
    /\ Observations(ratings, "A") = 0
    /\ Successes(ratings, "B") = 1
    /\ Failures(ratings, "B") = 0
    /\ Observations(ratings, "C") = MaturityThreshold

\* C10: the learned rating of every source lies in [0, 10] in every ledger
\* state that successes and failures can build.
C10_RatingInRange ==
    \A s \in SourceIds :
        LET x == get_learned_rating(ratings, s)
        IN  /\ x[2] > 0
            /\ 0 <= x[1]
            /\ x[1] <= 10 * x[2]

C10_Witness ==
    /\ Successes(ratings, "A") = 0
    /\ Failures(ratings, "A") = MaturityThreshold - 1
    /\ Successes(ratings, "C") = 2

\* C11: the number get_display_rating shows is the learned rating rounded to
\* one decimal, and the insufficient-evidence marker is shown exactly below
\* the maturity threshold of get_learned_rating.
C11_DisplayIsLearnedBlend ==
    \A s \in SourceIds :
        LET shown_rating == get_display_rating(ratings, s)
        IN  /\ shown_rating.tenths = Round1(get_learned_rating(ratings, s))
            /\ shown_rating.star = (Observations(ratings, s) < MaturityThreshold)

\* the audit entries of a source for an event
AuditCount(a, s, event) ==
    Cardinality({i \in DOMAIN a : a[i].source_id = s /\ a[i].event = event})

\* C12: the audit log only grows at its end, every scoring event of the
\* pipeline adds one entry for one counter, and for every source the entries
\* number its successes and its failures; so the log is as long as the sum of
\* all counters.
C12_AuditMatchesLedger ==
    [][ /\ Len(audit') >= Len(audit)
        /\ SubSeq(audit', 1, Len(audit)) = audit
        /\ \A s \in SourceIds :
              /\ AuditCount(audit', s, "success") = Successes(ratings', s)
              /\ AuditCount(audit', s, "failure") = Failures(ratings', s)
        /\ Len(audit') = SumObservations(ratings', SourceIds) ]_vars

C12_Witness ==
    /\ \E i \in DOMAIN audit : audit[i].event = "failure"
    /\ \E i \in DOMAIN audit : audit[i].event = "success"
    /\ Len(audit) = SumObservations(ratings, SourceIds)

\* C13: a cycle that has started goes through all its headlines and saves
\* the queue, also when the ledger's storage fails: every step of the loop
\* goes on to the next headline, the cycle ends only by saving the queue, and
\* the ledger changes only in a cycle that goes on.
C13_LedgerFailureSkipped ==
    [][ /\ (pc = "loop" /\ headlines # <<>>) =>
              (pc' = "loop" /\ headlines' = Tail(headlines))
        /\ (pc = "loop" /\ pc' = "idle") => queueFile' = queue
        /\ (pc = "idle" /\ ratings' # ratings) => pc' = "loop" ]_vars

\* C14: the result extract_fact yields for a fresh reply has a fact and, unless
\* the fact is SKIP, a confidence, and the loop goes on to the next headline.
C14_ExtractionNeverRaises ==
    [][ ( /\ pc = "loop"
          /\ headlines # <<>>
          /\ ~IsCached(Head(headlines).text)
          /\ get_story_hash(Head(headlines).text) \in DOMAIN factCache'.map )
        => LET result == factCache'.map[get_story_hash(Head(headlines).text)]
           IN  /\ result.fact # NoFact
               /\ result.fact # SkipText => result.confidence # NoConfidence
               /\ pc' = "loop"
               /\ headlines' = Tail(headlines) ]_vars

\* the ids of the stories of stories.json and of the archived daily logs
LedgerIds(st) == {st.list[i].id : i \in DOMAIN st.list} \cup {a.id : a \in ArchivedStories}

\* C15: a correction or retraction is recorded in the corrections log only
\* for a story id that the publication ledger holds; for any other id nothing
\* is appended and no story changes.
C15_UnknownStorySkipped ==
    [][ Len(corrections') > Len(corrections) =>
          corrections'[Len(corrections')].story_id \in LedgerIds(stories') ]_vars

\* a step of the headline loop that merges late detail: stories.json changes
\* and no line is added to the daily log
MergesDetail == pc = "loop" /\ stories' # stories /\ dailyLog' = dailyLog

\* C16: merging late detail into a published story changes only that story's
\* text, attribution and audio reference and adds one success to the merging
\* source; the number of stories is unchanged, no queue entry is added or
\* removed, and nothing is published, corrected or retracted.
C16_MergeFrame ==
    [][ MergesDetail =>
          LET source_id == Head(headlines).source_id
          IN  /\ stories'.date = stories.date
              /\ Len(stories'.list) = Len(stories.list)
              /\ \E k \in DOMAIN stories.list :
                    /\ \A i \in DOMAIN stories.list \ {k} :
                          stories'.list[i] = stories.list[i]
                    /\ stories'.list[k] =
                          [stories.list[k] EXCEPT !.fact = stories'.list[k].fact,
                                                  !.source = stories'.list[k].source,
                                                  !.audio = stories'.list[k].audio]
              /\ Successes(ratings', source_id) = Successes(ratings, source_id) + 1
              /\ Failures(ratings', source_id) = Failures(ratings, source_id)
              /\ \A s \in SourceIds \ {source_id} :
                    /\ Successes(ratings', s) = Successes(ratings, s)
                    /\ Failures(ratings', s) = Failures(ratings, s)
              /\ queue' = queue
              /\ shown' = shown
              /\ corrections' = corrections ]_vars

\* a story that a third source has been merged into
C16_Witness ==
    \E i \in DOMAIN stories.list :
        /\ Len(stories.list[i].source) = 3
        /\ Len(stories.list[i].fact) >= 2

\* the story a merging step changes
MergedIndex == CHOOSE k \in DOMAIN stories.list : stories'.list[k] # stories.list[k]

\* C17: detail is appended to a story only by a source that its attribution
\* does not credit yet, so at most once per source, and no detail is appended
\* to a story that already holds it.
C17_DetailOnce ==
    [][ MergesDetail =>
          LET old == stories.list[MergedIndex]
              new == stories'.list[MergedIndex]
              additional_detail == SubSeq(new.fact, Len(old.fact) + 1, Len(new.fact))
          IN  /\ Head(headlines).source_id \notin SeqRange(old.source)
              /\ SeqRange(additional_detail) \cap SeqRange(old.fact) = {} ]_vars

C19_StatusAndRecord ==
    \A i \in DOMAIN stories.list :
        LET story == stories.list[i]
        IN  /\ story.status \in {"published", "corrected", "retracted"}
            /\ (story.status # "published") <=> (story.original_fact # <<>>)
            /\ (story.status # "published") <=> (story.record # "none")
            /\ story.status = "corrected" => story.record = "correction"
            /\ story.status = "retracted" => story.record = "retraction"

\* a retracted story
C19_Witness ==
    \E i \in DOMAIN stories.list :
        /\ stories.list[i].status = "retracted"
        /\ stories.list[i].original_fact # <<>>

\* a step of the headline loop that queues the fact, publishes a story or
\* changes a published one
UsesFact ==
    /\ pc = "loop"
    /\ headlines # <<>>
    /\ (queue' # queue \/ stories' # stories \/ dailyLog' # dailyLog)

\* C20: a fact is queued, merged or published only if the extraction result
\* of its headline is not SKIP, has a confidence of at least min_confidence
\* and carries the oracle's newsworthy flag, set to true, whatever path
\* parsed the reply.
C20_GateBeforeUse ==
    [][ UsesFact =>
          /\ IncomingResult.fact # SkipText
          /\ IncomingResult.confidence >= MinConfidence
          /\ IncomingResult.newsworthy = "true" ]_vars

\* the sentence without its letter case and with single spaces
CanonAtom(a) == CASE a \in {"F1A", "f1a_ws", "F1A_ws"} -> "f1a" [] OTHER -> a
CanonText(text) == [i \in DOMAIN text |-> CanonAtom(text[i])]

\* C21: two texts that differ only in letter case or in whitespace have the
\* same hash, so the fast path of is_duplicate takes one for the other.
C21_HashNormalizes ==
    CanonText(probe.a) = CanonText(probe.b) => probe.res

\* C22: a story whose audio is a hash-named file of the archive references
\* the file named by the audio id of the story's current text.
C22_AudioFollowsText ==
    \A i \in DOMAIN stories.list :
        LET story == stories.list[i]
        IN  story.audio[1] = "archive" =>
              story.audio[3] = generate_tts(story.fact, TRUE)

\* C23: every correction, every retraction and every contradiction block hands
\* an alert to the transport, however recently another alert was sent: each
\* call of send_alert a step makes ends in "Alert sent".
C23_AlertsAlwaysSent ==
    [][\A i \in (Len(alertLog) + 1)..Len(alertLog') : alertLog'[i].sent]_vars

\* C24: two alerts of one category with a nonzero cooldown are never delivered
\* less than that cooldown apart.
C24_CooldownApart ==
    \A i, j \in DOMAIN alertLog :
        (/\ i < j
         /\ alertLog[i].sent
         /\ alertLog[j].sent
         /\ alertLog[i].type = alertLog[j].type
         /\ ALERT_COOLDOWNS[alertLog[i].type] > 0)
        => alertLog[j].at - alertLog[i].at >= ALERT_COOLDOWNS[alertLog[i].type]

\* an alert is delivered, one of its category is throttled within the cooldown,
\* and a third is delivered once the cooldown has passed
C24_Witness ==
    \E i, j, k \in DOMAIN alertLog :
        /\ i < j
        /\ j < k
        /\ alertLog[i].type = "general"
        /\ alertLog[j].type = "general"
        /\ alertLog[k].type = "general"
        /\ alertLog[i].sent
        /\ ~alertLog[j].sent
        /\ alertLog[j].at - alertLog[i].at < ALERT_COOLDOWNS["general"]
        /\ alertLog[k].sent

\* C25: the queue's expiry comes before any matching, so a verification never
\* takes an entry that was past its timeout when the cycle began; a headline's
\* fact is matched, queued or merged only after its extraction result was
\* stored, passed the thresholds and was not found among the facts already
\* shown today; and a correction is issued only by a step that published.
C25_StepOrder ==
    [][ /\ Publishes => \A m \in Removed : ~PastTimeout(m)
        /\ UsesFact =>
              /\ get_story_hash(Head(headlines).text) \in DOMAIN factCache'.map
              /\ PassesGate(IncomingResult)
              /\ get_story_hash(IncomingResult.fact) \notin load_shown_hashes
        /\ (pc = "loop" /\ corrections' # corrections) => Publishes ]_vars

\* a story was published in a cycle that began with an expired entry on file
C25_Witness ==
    /\ pc = "loop"
    /\ \E i \in DOMAIN queueFile : PastTimeout(queueFile[i])
    /\ stories.date = Today
    /\ stories.list # <<>>

\* C26: a headline text goes through extraction and the pipeline at most once
\* per UTC day: a headline whose text was already marked as processed today,
\* in this batch or in an earlier cycle, is skipped and changes nothing.
C26_ProcessedOncePerDay ==
    [][ ( /\ pc = "loop"
          /\ headlines # <<>>
          /\ get_story_hash(Head(headlines).text) \in load_processed_headlines )
        => UNCHANGED <<Files, factCache>> ]_vars

RECURSIVE LeadingTransient(_, _)
LeadingTransient(api, i) ==
    IF i > Len(api) \/ api[i] \notin RetryableExceptions THEN 0
    ELSE 1 + LeadingTransient(api, i + 1)

\* C28: an extraction call that fails with a transient error is made again
\* after base_delay * 2^attempt, up to max_retries further times; the headline
\* is given up for transient failures only after max_retries + 1 failed calls.
C28_TransientRetried ==
    LET n == Min(LeadingTransient(probe.a, 1), MaxRetries)
    IN  /\ probe.res.calls = n + 1
        /\ probe.res.delays = [i \in 1..n |-> BaseDelay * (2 ^ (i - 1))]
        /\ (probe.a[n + 1] = "reply") => probe.res.value # SkipText

\* C29: a write of durable state is an atomic replacement: when the process
\* dies during the write of the queue, the file holds the complete previous
\* content or the complete new content.
C29_AtomicReplace ==
    [][pc' = "crashed" => queueFile' \in {queueFile, queue}]_vars

\* the alert lines the step has added for facts the contradiction check blocked
BlockedNow ==
    {alertLog'[i].message[2] :
        i \in {j \in (Len(alertLog) + 1)..Len(alertLog') :
                 alertLog'[j].message[1] = "Contradiction"}}

\* C30: a fact the contradiction check blocks while a headline is processed is
\* not published by that headline, no success is recorded for it, and no
\* correction or retraction is issued from it.
C30_BlockedNotUsed ==
    [][ (pc = "loop" /\ BlockedNow # {}) =>
          /\ ~(Publishes /\ NewLine[6] \in BlockedNow)
          /\ \A s \in SourceIds : Successes(ratings', s) = Successes(ratings, s)
          /\ corrections' = corrections ]_vars

\* the lines the step has added to the alert log
NewAlerts == {alertLog'[i] : i \in (Len(alertLog) + 1)..Len(alertLog')}

\* an alert of the category was delivered less than its cooldown ago
RecentlyDelivered(alert_type) ==
    \E i \in DOMAIN alertLog :
        /\ alertLog[i].type = alert_type
        /\ alertLog[i].sent
        /\ now - alertLog[i].at < ALERT_COOLDOWNS[alert_type]

\* C31: when the costs pass 80% of the budget or the queue backs up, and no
\* alert of that category was delivered within its cooldown, the alert is handed
\* to the transport: Twilio takes it, or refuses it and the failure is counted.
C31_BudgetAndBackupDelivered ==
    [][ \A line \in NewAlerts :
          (line.type \in {"credits_low", "queue_backup"} /\ ~RecentlyDelivered(line.type))
          => \/ line.sent
             \/ consecutiveFailures'["twilio"] # consecutiveFailures["twilio"] ]_vars

\* the stream is offline: the last heartbeat is older than the threshold
StreamOffline ==
    /\ monitor.heartbeat # NoBeat
    /\ now - monitor.heartbeat > STREAM_OFFLINE_THRESHOLD

OfflineAlerts == {line \in NewAlerts : line.message = <<"Stream offline">>}

\* C32: one alert per offline episode: the flag is set only by a step that had
\* an offline alert delivered, no offline alert is sent while the flag is set,
\* and in the main loop an offline stream is eventually reported.
C32_OfflineReportedOnce ==
    /\ [][ /\ (monitor'.offline_alert_sent /\ ~monitor.offline_alert_sent)
                 => \E line \in OfflineAlerts : line.sent
            /\ monitor.offline_alert_sent => OfflineAlerts = {} ]_vars
    /\ StreamOffline ~> monitor.offline_alert_sent

\* C33: the archive sequence runs at most once per UTC date, however often
\* check_midnight_archive is called inside the window.
C33_ArchiveOncePerDate ==
    \A i, j \in DOMAIN monitor.archived :
        i # j => monitor.archived[i] # monitor.archived[j]

\* the sequence has run on two days, and today's run is done: a further call
\* inside today's window meets the guard
C33_Witness ==
    /\ Len(monitor.archived) >= 2
    /\ monitor.archive_done_for = Today

\* C34: the readers of the daily log get back, for every story, the fact text
\* that append_daily_log wrote in its line: get_recent_facts for today's lines,
\* get_recent_stories_for_correction for the lines of the days before.
C34_LogReadersGetFact ==
    /\ \A i \in DOMAIN dailyLog[Today] : get_recent_facts[i] = dailyLog[Today][i][6]
    /\ \A story \in ArchivedStories :
          \E d \in Dates : \E i \in DOMAIN dailyLog[d] : story.fact = dailyLog[d][i][6]

\* C35: the late-detail merge adds a source to a published story, and credits
\* it, only if the source is unrelated to every source the story credits.
C35_MergeOnlyUnrelated ==
    [][ MergesDetail =>
          \A credited \in SeqRange(stories.list[MergedIndex].source) :
              are_sources_unrelated(Head(headlines).source_id, credited) ]_vars

\* the step processes a headline whose extraction result passes the thresholds
\* and whose fact the duplicate check cannot take for a published one
HandlesNewFact ==
    /\ pc = "loop"
    /\ headlines # <<>>
    /\ ~is_headline_processed(Head(headlines).text, processedCache)
    /\ factCache'.date = Today
    /\ get_story_hash(Head(headlines).text) \in DOMAIN factCache'.map
    /\ PassesGate(IncomingResult)
    /\ DupAnswers(IncomingResult.fact) = {FALSE}

\* C36: a fact that passed the thresholds and the duplicate check is, when the
\* processing of its headline ends, published, merged into a published story,
\* blocked as a contradiction, or in the queue; it is not dropped with nothing
\* changed, also not when it matched only queue entries of related sources.
C36_FactNotDropped ==
    [][ HandlesNewFact =>
          \/ Publishes
          \/ MergesDetail
          \/ BlockedNow # {}
          \/ \E i \in DOMAIN queue' : queue'[i].fact = IncomingResult.fact ]_vars

\* the audit log holds a failure charged for the queue entry
ChargedBefore(item) ==
    \E i \in DOMAIN audit :
        /\ audit[i].event = "failure"
        /\ audit[i].source_id = item.source_id
        /\ audit[i].fact_hash = get_story_hash(item.fact)

\* C37: over any sequence of cycles, aborted ones included, a queue entry is
\* charged its expiry failure once: when the start of a cycle charges failures,
\* no expired entry of the persisted queue has a failure charged already.
C37_EntryChargedOnce ==
    [][ (pc = "idle" /\ ratings' # ratings) =>
          \A i \in DOMAIN queueFile :
              PastTimeout(queueFile[i]) => ~ChargedBefore(queueFile[i]) ]_vars

\* the text the daily log holds for the i-th story of stories.json: the text
\* the story was published with, which late detail only appends to
PublishedText(i) == dailyLog[stories.date][i][6]

\* C38: whatever corrections and retractions a story has gone through, its
\* original_fact is the text it had before its first correction, that is the
\* text it was published with, followed by the late detail merged until then.
C38_OriginalKept ==
    \A i \in DOMAIN stories.list :
        stories.list[i].status # "published" =>
          LET original == stories.list[i].original_fact
              published == PublishedText(i)
          IN  /\ Len(original) >= Len(published)
              /\ SubSeq(original, 1, Len(published)) = published

\* a step of the headline loop that records a success for the source and
\* publishes nothing: the success the merge branch records
CreditsMerge(s) ==
    /\ pc = "loop"
    /\ dailyLog' = dailyLog
    /\ Successes(ratings', s) > Successes(ratings, s)

\* C39: a source is credited with a success for late detail only if the
\* update was applied: the story it matched has the detail appended and
\* credits the source; when the update fails no success is recorded.
C39_CreditOnlyIfUpdated ==
    [][ \A s \in SourceIds :
          CreditsMerge(s) =>
            \E i \in DOMAIN stories.list :
               /\ stories'.list[i].fact # stories.list[i].fact
               /\ s \in SeqRange(stories'.list[i].source) ]_vars

\* C40: a headline whose extraction failed is not lost: when it is acquired
\* again in a later cycle of the day and no extraction result is held for it
\* (the reply was an API error or unusable text, which leave nothing in the
\* cache), the loop does not hold it as processed, so it is extracted again.
C40_FailedExtractedAgain ==
    ( /\ pc = "loop"
      /\ headlines # <<>>
      /\ ~IsCached(Head(headlines).text) )
    => ~is_headline_processed(Head(headlines).text, processedCache)

====
